---- MODULE Spec2Model ----
(***************************************************************************)
(* Model of src/main.py: the checkpointed speech-drafting Orchestrator.     *)
(*                                                                         *)
(* Strings are sequences of tokens; every token stands for a non-empty run  *)
(* of characters, so token-level equality and prefix imply the same on the  *)
(* rendered characters.  A Draft is a mutable Python object: Drafts live in *)
(* a heap and current/history hold their addresses, so that two references  *)
(* to one object are told apart from two equal objects.  A dict is an       *)
(* insertion-ordered sequence of <<key, value>> pairs.                      *)
(***************************************************************************)
EXTENDS Integers, Sequences, FiniteSets, TLC

\* ----- Bounds -----

\* number of stage operations a caller invokes on one Orchestrator
MaxCalls == 4

\* number of roles whose registered contributor is not the stub
MaxOverrides == 1

\* ----- Data models -----

NL == "\n"

\* class Role(Enum): the members in declaration order
Role == <<"POLICY_EXPERT", "DATA_ADVISOR", "LOGIC_ARCHITECT", "STYLIST", "RISK_REVIEWER">>

Roles == {Role[i] : i \in DOMAIN Role}

POLICY_EXPERT == Role[1]

DATA_ADVISOR == Role[2]

LOGIC_ARCHITECT == Role[3]

STYLIST == Role[4]

RISK_REVIEWER == Role[5]

\* the requests a session is constructed with (the code reads only the
\* occasion and the audience)
SpeechRequest == [occasion : {"X", "summit"}, audience : {"Y"}]

\* a plausible slip: a new Draft starts with a note in it
DraftNotesPrefilled(text, rationale, notes) ==
    [text |-> text, rationale |-> rationale, notes |-> <<"TODO">> \o notes]

\* Draft(text=..., rationale=..., notes=...)
Draft(text, rationale, notes) == [text |-> text, rationale |-> rationale, notes |-> notes]

\* ----- dict and str primitives -----

\* d.keys()
DictKeys(d) == {d[i][1] : i \in DOMAIN d}

\* list(d.values()), in insertion order
DictValues(d) == [i \in DOMAIN d |-> d[i][2]]

\* d[k] for a key that is present
DictGet(d, k) == d[CHOOSE i \in DOMAIN d : d[i][1] = k][2]

\* d[k] = v for a dict given by value: an existing key keeps its position, a
\* new key goes last
DictStore(d, k, v) ==
    IF k \in DictKeys(d)
    THEN [i \in DOMAIN d |-> IF d[i][1] = k THEN <<k, v>> ELSE d[i]]
    ELSE Append(d, <<k, v>>)

\* d[k] = v; the dict expression is evaluated once and then stored into
DictSet(d, k, v) == CHOOSE stored \in {DictStore(x, k, v) : x \in {d}} : TRUE

RECURSIVE JoinFrom(_, _, _)
\* sep.join(strs[i:])
JoinFrom(sep, strs, i) ==
    IF i > Len(strs) THEN <<>>
    ELSE IF i = Len(strs) THEN strs[i]
    ELSE strs[i] \o sep \o JoinFrom(sep, strs, i + 1)

\* sep.join(strs)
Join(sep, strs) == JoinFrom(sep, strs, 1)

\* a.startswith(p)
IsPrefix(p, a) == Len(p) <= Len(a) /\ SubSeq(a, 1, Len(p)) = p

\* ----- Model plumbing -----

\* what a registered ModelFn callable may do when called: the stub of
\* stub_model, a callable returning "", a callable that raises, a callable
\* whose answer depends on the draft it is given
ModelFn == {"stub", "empty", "raises", "reads_draft"}

\* no exception in flight
NoException == [exc |-> "None", args |-> <<>>]

\* whatever a registered callable raises
ContributorError == [exc |-> "Exception", args |-> <<>>]

\* what the lookup ROLE_MODELS[role] raises for a role that is not a key
KeyError(role) == [exc |-> "KeyError", args |-> <<role>>]

\* a callable that reads the draft: its answer names the length of the text
reads_draft(draft) == <<"re: ", ToString(Len(draft.text))>>

\* stub_model(role)._run(request, draft)
stub_model(role, request) ==
    <<"[", role, "] suggestion based on ", request.occasion, " / ", request.audience>>

\* ROLE_MODELS[role](request, draft) for a registry reg: the lookup raises
\* KeyError for a role that is not a key; the call returns a str or raises
CallModel(reg, role, request, draft) ==
    CASE reg[role] = "stub" ->
             [raised |-> FALSE, exc |-> NoException, value |-> stub_model(role, request)]
      [] reg[role] = "empty" -> [raised |-> FALSE, exc |-> NoException, value |-> <<>>]
      [] reg[role] = "reads_draft" ->
             [raised |-> FALSE, exc |-> NoException, value |-> reads_draft(draft)]
      [] reg[role] = "raises" -> [raised |-> TRUE, exc |-> ContributorError, value |-> <<>>]
      [] reg[role] = "unregistered" ->
             [raised |-> TRUE, exc |-> KeyError(role), value |-> <<>>]

\* the registries under which a session runs: the one the module builds
\* (every role the stub), those that differ from it in at most MaxOverrides
\* roles (another callable, or the key removed), and the one whose callables
\* all return ""
Registries ==
    {reg \in [Roles -> ModelFn \cup {"unregistered"}] :
        Cardinality({r \in Roles : reg[r] # "stub"}) <= MaxOverrides}
    \cup {[r \in Roles |-> "empty"]}

\* ----- Orchestration -----

\* HumanDecisionRequired(reason): an Exception whose only argument is reason
HumanDecisionRequired(reason) == [exc |-> "HumanDecisionRequired", args |-> <<reason>>]

\* a plausible slip: the checkpoint logs and returns instead of raising
CheckpointReturns(reason) == NoException

\* Orchestrator._checkpoint(reason): what the call leaves in flight
checkpoint(reason) == HumanDecisionRequired(reason)

\* a plausible slip: the raise comes first, so the append is never run
HistoryAppendSkipped(h, ref) == h

\* a plausible slip: the new snapshot is put first (newest first)
HistoryPrepend(h, ref) == <<ref>> \o h

\* self.history.append(self.current)
HistoryAppend(h, ref) == Append(h, ref)

RECURSIVE Collect(_, _, _, _, _, _)
\* the calls ROLE_MODELS[order[i]](...), ROLE_MODELS[order[i+1]](...), ... made
\* one after the other, each result stored under its role in acc; the first
\* call that raises ends the evaluation
Collect(reg, request, draft, order, i, acc) ==
    IF i > Len(order) THEN [raised |-> FALSE, exc |-> NoException, value |-> acc]
    ELSE LET r == CallModel(reg, order[i], request, draft)
         IN IF r.raised THEN [raised |-> TRUE, exc |-> r.exc, value |-> <<>>]
            ELSE Collect(reg, request, draft, order, i + 1, DictSet(acc, order[i], r.value))

\* a plausible slip: the dict literal lists the roles in another order
ContributionsReordered(reg, request, draft) ==
    Collect(reg, request, draft, <<DATA_ADVISOR, POLICY_EXPERT, LOGIC_ARCHITECT>>, 1, <<>>)

\* initial_briefing: the dict literal `contributions`
contributions(reg, request, draft) ==
    Collect(reg, request, draft, <<POLICY_EXPERT, DATA_ADVISOR, LOGIC_ARCHITECT>>, 1, <<>>)

\* initial_briefing: outline = "\n".join(contributions.values())
outline(contribs) == Join(<<NL>>, DictValues(contribs))

RECURSIVE CollectSwallowing(_, _, _, _, _, _)
\* a plausible slip: a call that raises is caught and skipped
CollectSwallowing(reg, request, draft, order, i, acc) ==
    IF i > Len(order) THEN [raised |-> FALSE, exc |-> NoException, value |-> acc]
    ELSE LET r == CallModel(reg, order[i], request, draft)
         IN IF r.raised THEN CollectSwallowing(reg, request, draft, order, i + 1, acc)
            ELSE CollectSwallowing(reg, request, draft, order, i + 1,
                                   DictSet(acc, order[i], r.value))

FeedbackSwallowing(reg, request, draft) ==
    CollectSwallowing(reg, request, draft, Role, 1, <<>>)

RECURSIVE CollectChained(_, _, _, _, _, _)
\* a plausible slip: each role is given the draft as extended by the roles
\* called before it in the same stage
CollectChained(reg, request, draft, order, i, acc) ==
    IF i > Len(order) THEN [raised |-> FALSE, exc |-> NoException, value |-> acc]
    ELSE LET r == CallModel(reg, order[i], request, draft)
         IN IF r.raised THEN [raised |-> TRUE, exc |-> r.exc, value |-> <<>>]
            ELSE CollectChained(reg, request,
                                [draft EXCEPT !.text = @ \o <<NL>> \o r.value],
                                order, i + 1, DictSet(acc, order[i], r.value))

FeedbackChained(reg, request, draft) == CollectChained(reg, request, draft, Role, 1, <<>>)

\* debate_round: feedback = {}; for role in Role: feedback[role] = ...
feedback(reg, request, draft) == Collect(reg, request, draft, Role, 1, <<>>)

\* a plausible slip: self.current.text is left out of the merged text
DebateMergedFresh(text, fb) == <<NL>> \o Join(<<NL>>, DictValues(fb))

\* a plausible slip: a guard against re-entry skips feedback already merged
DebateMergedOnce(text, fb) ==
    LET tail == <<NL>> \o Join(<<NL>>, DictValues(fb))
    IN IF Len(text) >= Len(tail)
          /\ SubSeq(text, Len(text) - Len(tail) + 1, Len(text)) = tail
       THEN text
       ELSE text \o tail

\* debate_round: merged = self.current.text + "\n" + "\n".join(feedback.values())
debate_merged(text, fb) == text \o <<NL>> \o Join(<<NL>>, DictValues(fb))

\* a plausible slip: the risk block is written before the stylist block
PolishMergedRiskFirst(text, stylist, risk) ==
    text \o <<NL, NL, "[Risk]", NL>> \o risk \o <<NL, NL, "[Stylist]", NL>> \o stylist

\* polish_and_risk_check: merged = f"{text}\n\n[Stylist]\n{stylist}\n\n[Risk]\n{risk}"
polish_merged(text, stylist, risk) ==
    text \o <<NL, NL, "[Stylist]", NL>> \o stylist \o <<NL, NL, "[Risk]", NL>> \o risk

\* a plausible slip: the polish stage records its two outputs as rationale
PolishRationaleRecorded(rationale, stylist, risk) ==
    <<<<STYLIST, stylist>>, <<RISK_REVIEWER, risk>>>>

\* polish_and_risk_check: rationale=self.current.rationale
polish_rationale(rationale, stylist, risk) == rationale

\* a plausible slip: the second note is left out
NotesOneEntry == <<"Pause for emphasis after the core policy statement.">>

\* generate_speaker_notes: the list `notes`
notes == <<"Pause for emphasis after the core policy statement.",
           "Cite the specific policy document when mentioning achievements.">>

\* the stage operations of the Orchestrator
NonTerminalStages == {"initial_briefing", "debate_round", "polish_and_risk_check"}

Stages == NonTerminalStages \cup {"generate_speaker_notes"}

VARIABLES
    request,      \* Orchestrator.request
    ROLE_MODELS,  \* the module-level registry: role -> callable
    heap,         \* the Draft objects created so far, by address
    current,      \* Orchestrator.current: the address of a Draft
    history,      \* Orchestrator.history: a list of addresses
    pc,           \* where the caller is: "idle", "except" or "crashed"
    signal,       \* the exception the last call left in flight
    returned,     \* the value the last call returned: 0 for None, else an address
    trace,        \* the calls made and the handlers run, oldest first
    appended      \* for each history entry, the Draft as it was when appended

vars == <<request, ROLE_MODELS, heap, current, history, pc, signal, returned, trace, appended>>

\* Orchestrator.__init__ for any request, under any registry
Init ==
    /\ request \in SpeechRequest
    /\ ROLE_MODELS \in Registries
    /\ heap = <<Draft(<<>>, <<>>, <<>>)>>
    /\ current = 1
    /\ history = <<>>
    /\ pc = "idle"
    /\ signal = NoException
    /\ returned = 0
    /\ trace = <<>>
    /\ appended = <<>>

\* the stage operations called so far
NumCalls == Cardinality({i \in DOMAIN trace : trace[i].op \in Stages})

\* a plausible slip: a sequencing guard rejects calls after the terminal stage
CanCallUntilNoted ==
    /\ pc = "idle"
    /\ NumCalls < MaxCalls
    /\ IF trace = <<>> THEN TRUE ELSE trace[Len(trace)].op # "generate_speaker_notes"

\* the caller may call a stage operation
CanCall == pc = "idle" /\ NumCalls < MaxCalls

\* a call of op ends with exception exc in flight, or returns value
Outcome(op, exc, value) ==
    /\ signal' = exc
    /\ returned' = value
    /\ trace' = Append(trace, [op |-> op, ok |-> exc.exc \in {"None", "HumanDecisionRequired"}])
    /\ pc' = CASE exc.exc = "None" -> "idle"
               [] exc.exc = "HumanDecisionRequired" -> "except"
               [] OTHER -> "crashed"

\* a lookup or a contributor raised exc: the exception leaves the stage
\* operation at once
Propagate(op, exc) ==
    /\ Outcome(op, exc, 0)
    /\ UNCHANGED <<request, ROLE_MODELS, heap, current, history, appended>>

\* self.current = Draft(...); self.history.append(self.current)
Commit(draft) ==
    /\ heap' = Append(heap, draft)
    /\ current' = Len(heap) + 1
    /\ history' = HistoryAppend(history, Len(heap) + 1)
    /\ appended' = Append(appended, draft)
    /\ UNCHANGED <<request, ROLE_MODELS>>

initial_briefing ==
    /\ CanCall
    \* the contributions are computed once, then used
    /\ \E c \in {contributions(ROLE_MODELS, request, heap[current])} :
          IF c.raised THEN Propagate("initial_briefing", c.exc)
          ELSE /\ Commit(Draft(outline(c.value), c.value, <<>>))
               /\ Outcome("initial_briefing",
                          checkpoint("Review and approve the initial outline."), 0)

debate_round ==
    /\ CanCall
    \* the feedback is computed once, then used
    /\ \E fb \in {feedback(ROLE_MODELS, request, heap[current])} :
          IF fb.raised THEN Propagate("debate_round", fb.exc)
          ELSE /\ Commit(Draft(debate_merged(heap[current].text, fb.value), fb.value, <<>>))
               /\ Outcome("debate_round",
                          checkpoint("Resolve disagreements and select direction."), 0)

polish_and_risk_check ==
    /\ CanCall
    \* the two outputs are computed once, then used
    /\ \E stylist \in {CallModel(ROLE_MODELS, STYLIST, request, heap[current])},
          risk \in {CallModel(ROLE_MODELS, RISK_REVIEWER, request, heap[current])} :
          IF stylist.raised THEN Propagate("polish_and_risk_check", stylist.exc)
          ELSE IF risk.raised THEN Propagate("polish_and_risk_check", risk.exc)
          ELSE /\ Commit(Draft(polish_merged(heap[current].text, stylist.value, risk.value),
                               polish_rationale(heap[current].rationale,
                                                stylist.value, risk.value),
                               <<>>))
               /\ Outcome("polish_and_risk_check",
                          checkpoint("Finalize wording and risk findings."), 0)

generate_speaker_notes ==
    /\ CanCall
    /\ heap' = [heap EXCEPT ![current].notes = notes]
    /\ history' = HistoryAppend(history, current)
    /\ appended' = Append(appended, heap'[current])
    /\ Outcome("generate_speaker_notes", NoException, current)
    /\ UNCHANGED <<request, ROLE_MODELS, current>>

\* run_demo: except HumanDecisionRequired as pause: print(...); continue
auto_continue ==
    /\ pc = "except"
    /\ pc' = "idle"
    /\ signal' = NoException
    /\ trace' = Append(trace, [op |-> "continue", ok |-> TRUE])
    /\ UNCHANGED <<request, ROLE_MODELS, heap, current, history, returned, appended>>

Next ==
    \/ initial_briefing
    \/ debate_round
    \/ polish_and_risk_check
    \/ generate_speaker_notes
    \/ auto_continue

Spec == Init /\ [][Next]_vars

\* ----- Properties -----

Last(s) == s[Len(s)]

\* the stage operations called so far, oldest first
Calls == SelectSeq(trace, LAMBDA e : e.op \in Stages)

\* the step is a call of stage operation op
IsCall(op) == Len(trace') = Len(trace) + 1 /\ Last(trace').op = op

\* the value ROLE_MODELS[r] returns in this session when given draft
Output(r, draft) == CallModel(ROLE_MODELS, r, request, draft).value

\* the Draft a new Orchestrator starts from
EmptyDraft == Draft(<<>>, <<>>, <<>>)

\* the Draft that was current when the last committed stage was called
PriorDraft == IF Len(appended) >= 2 THEN appended[Len(appended) - 1] ELSE EmptyDraft

Ok(op) == [op |-> op, ok |-> TRUE]

\* the roles a stage operation calls
InvokedRoles(op) ==
    CASE op = "initial_briefing" -> {POLICY_EXPERT, DATA_ADVISOR, LOGIC_ARCHITECT}
      [] op = "debate_round" -> Roles
      [] op = "polish_and_risk_check" -> {STYLIST, RISK_REVIEWER}
      [] OTHER -> {}

\* C1: every snapshot in history still has the text, rationale and notes it
\* had at the moment it was appended (no past Draft is mutated in place).
C1_PastDraftsNeverMutated ==
    \A i \in DOMAIN history : heap[history[i]] = appended[i]

C4_SignalCarriesReasonAndDraft ==
    signal.exc = "HumanDecisionRequired"
        => /\ Len(signal.args) = 2
           /\ signal.args[2] = current

\* C5: at every checkpoint signal the post-stage Draft of the stage that
\* raised it is already the last element of history, and the signal's reason
\* is that stage's reason.
C5_CommitPrecedesSuspension ==
    signal.exc = "HumanDecisionRequired"
        => /\ trace # <<>>
           /\ Last(trace) \in {Ok(op) : op \in NonTerminalStages}
           /\ signal.args[1] =
                 CASE Last(trace).op = "initial_briefing" ->
                          "Review and approve the initial outline."
                   [] Last(trace).op = "debate_round" ->
                          "Resolve disagreements and select direction."
                   [] Last(trace).op = "polish_and_risk_check" ->
                          "Finalize wording and risk findings."
           /\ history # <<>>
           /\ Last(history) = current
           /\ Len(history) = Len(Calls)
           /\ heap[Last(history)] = Last(appended)
           /\ heap[current].notes = <<>>

\* the polish stage has raised its checkpoint after two earlier stages
C5_Witness ==
    /\ signal.exc = "HumanDecisionRequired"
    /\ Last(trace).op = "polish_and_risk_check"
    /\ Len(history) >= 3

\* C6: a stage operation one of whose contributors raises commits nothing
\* (the drafts, current and history are as before the call) and raises no
\* checkpoint.
C6_FailedStageCommitsNothing ==
    [][\A op \in Stages :
          (IsCall(op) /\ \E r \in InvokedRoles(op) : ROLE_MODELS[r] = "raises")
              => /\ UNCHANGED <<heap, current, history>>
                 /\ signal'.exc # "HumanDecisionRequired"
                 /\ ~Last(trace').ok]_vars

\* a stage has failed after an earlier stage was committed
C6_Witness ==
    /\ pc = "crashed"
    /\ signal.exc = "Exception"
    /\ history # <<>>
    /\ Len(Calls) = Len(history) + 1

\* the single linear run briefing, debate, polish, notes
LinearRun ==
    Calls = <<Ok("initial_briefing"), Ok("debate_round"),
              Ok("polish_and_risk_check"), Ok("generate_speaker_notes")>>

\* C7: every stage operation whose contributors succeed appends exactly one
\* entry at the end of history and keeps the earlier entries in place, and
\* the linear run briefing, debate, polish, notes ends with 4 entries.
C7_OneEntryPerStage ==
    /\ [][\A op \in Stages :
             (IsCall(op) /\ Last(trace').ok)
                 => /\ Len(history') = Len(history) + 1
                    /\ SubSeq(history', 1, Len(history)) = history]_vars
    /\ [](LinearRun => Len(history) = 4)

\* the linear run has ended
C7_Witness == LinearRun /\ Len(history) = 4 /\ pc = "idle"

\* C8: once a stage operation has committed, current is the last element of
\* history.
C8_CurrentIsLastOfHistory ==
    (\E i \in DOMAIN trace : trace[i] \in {Ok(op) : op \in Stages})
        => (history # <<>> /\ Last(history) = current)

\* current is the last of several entries after the terminal stage
C8_Witness ==
    /\ returned # 0
    /\ Len(history) >= 3
    /\ Last(history) = current
    /\ Last(trace).op = "generate_speaker_notes"

\* C9: after the briefing stage run from the initial state the text is the
\* outputs of policy-expert, data-advisor and logic-architect, in that order,
\* joined by newlines, and the rationale maps exactly those three roles to
\* their outputs.
C9_BriefingTextAndRationale ==
    Calls = <<Ok("initial_briefing")>>
        => /\ heap[current].text =
                 Output(POLICY_EXPERT, EmptyDraft) \o <<NL>> \o Output(DATA_ADVISOR, EmptyDraft)
                     \o <<NL>> \o Output(LOGIC_ARCHITECT, EmptyDraft)
           /\ Len(heap[current].rationale) = 3
           /\ heap[current].rationale[1] = <<POLICY_EXPERT, Output(POLICY_EXPERT, EmptyDraft)>>
           /\ heap[current].rationale[2] = <<DATA_ADVISOR, Output(DATA_ADVISOR, EmptyDraft)>>
           /\ heap[current].rationale[3] = <<LOGIC_ARCHITECT, Output(LOGIC_ARCHITECT, EmptyDraft)>>

\* the briefing stage has run from the initial state with one empty output
C9_Witness ==
    /\ Calls = <<Ok("initial_briefing")>>
    /\ \E r \in InvokedRoles("initial_briefing") : ROLE_MODELS[r] = "empty"
    /\ Len(heap[current].text) > 2

\* C10: after debate_round the rationale has exactly five entries, one per
\* role, each that role's output of this round; after a following
\* polish_and_risk_check the rationale is the one debate_round left.
C10_RationaleReplacedThenCarried ==
    /\ (Calls # <<>> /\ Last(Calls) = Ok("debate_round"))
          => /\ Len(heap[current].rationale) = 5
             /\ DictKeys(heap[current].rationale) = Roles
             /\ \A r \in Roles : DictGet(heap[current].rationale, r) = Output(r, PriorDraft)
    /\ (Len(Calls) >= 2 /\ Last(Calls) = Ok("polish_and_risk_check")
            /\ Calls[Len(Calls) - 1] = Ok("debate_round"))
          => /\ heap[current].rationale = appended[Len(appended) - 1].rationale
             /\ Len(heap[current].rationale) = 5

\* polish has run right after a debate that followed a briefing
C10_Witness ==
    /\ Len(Calls) = 3
    /\ Calls[1] = Ok("initial_briefing")
    /\ Calls[2] = Ok("debate_round")
    /\ Calls[3] = Ok("polish_and_risk_check")
    /\ Len(appended[1].rationale) = 3
    /\ Len(heap[current].rationale) = 5

\* the stage operations that committed, oldest first
OkCalls == SelectSeq(Calls, LAMBDA e : e.ok)

\* C11: the linear run briefing, debate, polish, notes ends with a text that
\* is the briefing output, then the debate output, then the "[Stylist]" block,
\* then the "[Risk]" block, one after the other with separators between them.
C11_FinalTextInOrder ==
    LinearRun
        => heap[current].text =
               appended[1].text
               \o <<NL>>
               \o Output(POLICY_EXPERT, appended[1]) \o <<NL>>
               \o Output(DATA_ADVISOR, appended[1]) \o <<NL>>
               \o Output(LOGIC_ARCHITECT, appended[1]) \o <<NL>>
               \o Output(STYLIST, appended[1]) \o <<NL>>
               \o Output(RISK_REVIEWER, appended[1])
               \o <<NL, NL>>
               \o <<"[Stylist]", NL>> \o Output(STYLIST, appended[2])
               \o <<NL, NL>>
               \o <<"[Risk]", NL>> \o Output(RISK_REVIEWER, appended[2])

\* the linear run has returned a final draft longer than its briefing output
C11_Witness ==
    /\ LinearRun
    /\ returned = current
    /\ appended[1].text # <<>>
    /\ Len(heap[current].text) > Len(appended[1].text) + 8

\* C12: every debate_round that commits makes the current text strictly
\* longer, whatever the contributors return, and appends a snapshot of its own
\* to history.
C12_DebateNotIdempotent ==
    [][(IsCall("debate_round") /\ Last(trace').ok)
          => /\ Len(heap'[current'].text) > Len(heap[current].text)
             /\ Len(history') = Len(history) + 1
             /\ Last(history') = current'
             /\ \A i \in DOMAIN history : history[i] # current']_vars

\* debate_round has run twice in a row with contributors that all return ""
C12_Witness ==
    /\ Calls = <<Ok("debate_round"), Ok("debate_round")>>
    /\ \A r \in Roles : ROLE_MODELS[r] = "empty"
    /\ Len(appended[1].text) > 0
    /\ Len(appended[2].text) > Len(appended[1].text)
    /\ history[1] # history[2]

\* C13: generate_speaker_notes sets the current draft's notes to the two fixed
\* entries, leaves its text and rationale as they were, appends to history,
\* returns the current Draft and raises nothing.
C13_NotesStageChangesOnlyNotes ==
    [][IsCall("generate_speaker_notes")
          => /\ current' = current
             /\ heap'[current].text = heap[current].text
             /\ heap'[current].rationale = heap[current].rationale
             /\ heap'[current].notes =
                   <<"Pause for emphasis after the core policy statement.",
                     "Cite the specific policy document when mentioning achievements.">>
             /\ history' = Append(history, current)
             /\ returned' = current
             /\ signal'.exc = "None"
             /\ pc' = "idle"]_vars

\* the notes stage has returned a draft that has text and a rationale
C13_Witness ==
    /\ trace # <<>>
    /\ Last(trace) = Ok("generate_speaker_notes")
    /\ returned = current
    /\ heap[current].text # <<>>
    /\ Len(heap[current].rationale) = 5
    /\ Len(heap[current].notes) = 2

\* C14: a stage that looks up a role with no registered contributor raises
\* UnknownRoleError and commits nothing.
C14_UnknownRoleError ==
    [][\A op \in Stages :
          (IsCall(op) /\ \E r \in InvokedRoles(op) : ROLE_MODELS[r] = "unregistered")
              => /\ signal'.exc = "UnknownRoleError"
                 /\ UNCHANGED <<heap, current, history>>]_vars

\* the text and the rationale a stage builds from the roles in order, each
\* role's output being the one it gives for draft
ExpectedText(order, draft) ==
    Join(<<NL>>, [i \in DOMAIN order |-> Output(order[i], draft)])

ExpectedRationale(order, draft) ==
    [i \in DOMAIN order |-> <<order[i], Output(order[i], draft)>>]

\* C15: within a stage every contributor is given the draft that was current
\* when the stage was called, the merged text and the rationale list the
\* contributions in the declaration order of Role, and two briefing stages
\* with fixed-string contributors give the same text.
C15_SameDraftFixedOrder ==
    /\ (Calls # <<>> /\ Last(Calls) = Ok("initial_briefing"))
          => /\ heap[current].text =
                   ExpectedText(<<"POLICY_EXPERT", "DATA_ADVISOR", "LOGIC_ARCHITECT">>,
                                PriorDraft)
             /\ heap[current].rationale =
                   ExpectedRationale(<<"POLICY_EXPERT", "DATA_ADVISOR", "LOGIC_ARCHITECT">>,
                                     PriorDraft)
    /\ (Calls # <<>> /\ Last(Calls) = Ok("debate_round"))
          => /\ heap[current].text =
                   PriorDraft.text \o <<NL>>
                   \o ExpectedText(<<"POLICY_EXPERT", "DATA_ADVISOR", "LOGIC_ARCHITECT",
                                     "STYLIST", "RISK_REVIEWER">>, PriorDraft)
             /\ heap[current].rationale =
                   ExpectedRationale(<<"POLICY_EXPERT", "DATA_ADVISOR", "LOGIC_ARCHITECT",
                                       "STYLIST", "RISK_REVIEWER">>, PriorDraft)
    /\ \A i, j \in DOMAIN OkCalls :
          (/\ OkCalls[i].op = "initial_briefing"
           /\ OkCalls[j].op = "initial_briefing"
           /\ \A r \in InvokedRoles("initial_briefing") : ROLE_MODELS[r] \in {"stub", "empty"})
              => appended[i].text = appended[j].text

\* a debate has run on a non-empty draft with a draft-reading contributor that
\* is not the first role
C15_Witness ==
    /\ Calls # <<>>
    /\ Last(Calls) = Ok("debate_round")
    /\ \E i \in 2..Len(Role) : ROLE_MODELS[Role[i]] = "reads_draft"
    /\ PriorDraft.text # <<>>

\* the roles op calls are all registered with callables that return
Succeeds(op) == \A r \in InvokedRoles(op) : ROLE_MODELS[r] \in ModelFn \ {"raises"}

\* the step appends a new last entry to history, the draft that is then current
CommitsEntry ==
    /\ Len(history') = Len(history) + 1
    /\ history'[Len(history')] = current'
    /\ trace'[Len(trace')].ok

\* C16: whatever stages have run, a caller that is free to call (within the
\* bound on calls) can call each of the four stage operations, and a call
\* whose contributors succeed appends a new last entry to history.
C16_NoSequencingGuard ==
    (pc = "idle" /\ NumCalls < MaxCalls)
        => /\ ENABLED initial_briefing
           /\ ENABLED debate_round
           /\ ENABLED polish_and_risk_check
           /\ ENABLED generate_speaker_notes
           /\ Succeeds("initial_briefing") => ENABLED (initial_briefing /\ CommitsEntry)
           /\ Succeeds("debate_round") => ENABLED (debate_round /\ CommitsEntry)
           /\ Succeeds("polish_and_risk_check")
                 => ENABLED (polish_and_risk_check /\ CommitsEntry)
           /\ ENABLED (generate_speaker_notes /\ CommitsEntry)

\* the stages have run and committed in the reverse of the intended order
C16_Witness ==
    /\ Calls = <<Ok("generate_speaker_notes"), Ok("polish_and_risk_check"),
                 Ok("debate_round"), Ok("initial_briefing")>>
    /\ Len(history) = 4

\* C17: a non-terminal stage whose contributors all succeed returns nothing
\* and ends with HumanDecisionRequired in flight, having made a new current
\* draft and one more history entry; the handler that catches the signal
\* leaves that state as it is.
C17_CheckpointAlwaysRaisedNoRollback ==
    /\ [][\A op \in NonTerminalStages :
             (IsCall(op) /\ \A r \in InvokedRoles(op) : ROLE_MODELS[r] \in ModelFn \ {"raises"})
                 => /\ signal'.exc = "HumanDecisionRequired"
                    /\ returned' = 0
                    /\ pc' = "except"
                    /\ current' # current
                    /\ Len(history') = Len(history) + 1
                    /\ Last(history') = current']_vars
    /\ [][(pc = "except" /\ pc' # "except") => UNCHANGED <<heap, current, history>>]_vars

\* the signal of a committed stage has been caught and the stage's draft is
\* still the last entry of history
C17_Witness ==
    /\ Len(trace) >= 2
    /\ Last(trace).op = "continue"
    /\ trace[Len(trace) - 1] \in {Ok(op) : op \in NonTerminalStages}
    /\ Last(history) = current
    /\ heap[current] = Last(appended)

\* C18: the current draft has notes exactly when the stage operation that
\* committed last is generate_speaker_notes.
C18_NotesOnlyAfterNotesStage ==
    (heap[current].notes # <<>>)
        <=> (OkCalls # <<>> /\ Last(OkCalls).op = "generate_speaker_notes")

\* a stage run after the notes stage has left a current draft without notes
C18_Witness ==
    /\ Len(OkCalls) >= 2
    /\ OkCalls[Len(OkCalls) - 1].op = "generate_speaker_notes"
    /\ Last(OkCalls).op \in NonTerminalStages
    /\ appended[Len(appended) - 1].notes # <<>>
    /\ heap[current].notes = <<>>

====
